---- MODULE Spec2Model ----
(***************************************************************************)
(* Model of docker-entrypoint.py, the Drone CI plugin that creates and     *)
(* deletes AlertManager silences.                                          *)
(*                                                                         *)
(* The state is the process environment (os.environ), the template files,  *)
(* the position of the single thread of control (pc, target_idx,           *)
(* silence_idx), the locals that survive an HTTP exchange (silence_ids,    *)
(* silences_list, request_payload) and three observation logs: http, the   *)
(* requests the process sent with the response each one got, log, the      *)
(* messages it printed, and renders, the template renders it made.         *)
(***************************************************************************)
EXTENDS Integers, Sequences, FiniteSets, TLC

VARIABLES
    environ,                \* os.environ: key -> string, None when unset
    PLUGIN_URLS,            \* os.environ['PLUGIN_URLS'] as the list split(',') yields
    PLUGIN_CUSTOM_TEMPLATE, \* os.environ['PLUGIN_CUSTOM_TEMPLATE'] as a token list
    template_files,         \* the *.j2 files under TEMPLATES_PATH
    pc,                     \* "main", "loop", "delete", "done", "macro", "find"
    exit_code,              \* {} until the process exits, then {0} or {1}
    target_idx,             \* position of the for loop over target_urls
    silence_ids,            \* perform_action's silence_ids (delete)
    silence_idx,            \* position of the for loop over silence_ids
    silences_list,          \* body of the last GET response, as decoded
    raw_payload,            \* the text handed to replace_macroses last
    request_payload,        \* the body of the last request made
    http,                   \* the requests sent so far, each with its response
    log,                    \* the messages printed so far
    renders                 \* the template renders made so far, each with its context

vars == <<environ, PLUGIN_URLS, PLUGIN_CUSTOM_TEMPLATE, template_files, pc,
          exit_code, target_idx, silence_ids, silence_idx, silences_list,
          raw_payload, request_payload, http, log, renders>>

(***************************************************************************)
(* Bounds of the model.                                                    *)
(***************************************************************************)
MaxTargets == 2
MaxSilences == 2
MaxTextLen == 3

(***************************************************************************)
(* Values.                                                                 *)
(***************************************************************************)
None == "<None>"
Running == {}
NoIds == <<None>>

supported_actions == {"create", "delete"}
\* The build events with one more kind.
supported_build_events_deploy ==
    {"push", "tag", "cron", "pull_request", "promote", "rollback", "custom",
     "deploy"}
supported_build_events ==
    {"push", "tag", "cron", "pull_request", "promote", "rollback", "custom"}
plugin_user_agent == "drone/alertmanager"
required_env ==
    {"DRONE_REPO_OWNER", "DRONE_REPO_NAME", "DRONE_BUILD_LINK",
     "DRONE_BUILD_NUMBER", "DRONE_BUILD_STARTED", "DRONE_BUILD_FINISHED",
     "DRONE_BUILD_EVENT", "DRONE_STAGE_NAME"}
valid_response_codes == {200}
DeployTargetTag == "{{deploy_target}}"

EnvKeys ==
    required_env \cup
    {"PLUGIN_ACTION", "PLUGIN_DURATION", "PLUGIN_STRICT_MATCH",
     "PLUGIN_TEMPLATE", "DRONE_DEPLOY_TO", "DRONE_BUILD_CREATED",
     "DRONE_BUILD_TOTALTIME", "DRONE_BUILD_QUEUEDTIME",
     "SILENCE_COMMENT", "SILENCE_CREATED_BY"}

Last(s) == s[Len(s)]

(***************************************************************************)
(* Environment access.                                                     *)
(***************************************************************************)
from_env(key, default) ==
    IF environ[key] = None THEN default ELSE environ[key]

in_env(key) == from_env(key, "") \notin {"", None}

strict_match == from_env("PLUGIN_STRICT_MATCH", "false") = "true"
silence_action == from_env("PLUGIN_ACTION", "")
silence_duration == from_env("PLUGIN_DURATION", "")
build_event == from_env("DRONE_BUILD_EVENT", "")

silence_author == plugin_user_agent

\* A comment that names the stage of the build as well.
silence_comment_stage ==
    "Created for build#" \o from_env("DRONE_BUILD_NUMBER", "") \o " of "
    \o from_env("DRONE_REPO_OWNER", "") \o "/" \o from_env("DRONE_REPO_NAME", "")
    \o ", stage " \o from_env("DRONE_STAGE_NAME", "")
    \o ", see " \o from_env("DRONE_BUILD_LINK", "")

silence_comment ==
    "Created for build#" \o from_env("DRONE_BUILD_NUMBER", "") \o " of "
    \o from_env("DRONE_REPO_OWNER", "") \o "/" \o from_env("DRONE_REPO_NAME", "")
    \o ", see " \o from_env("DRONE_BUILD_LINK", "")

(***************************************************************************)
(* Messages.  A message is its level, a key for its text and the position  *)
(* of the target being processed (0 before the loop).  An uncaught Python  *)
(* exception prints a traceback and ends the process with exit code 1; it  *)
(* is kept in the log at level "TRACEBACK".                                *)
(***************************************************************************)
Msg(level, text) == [level |-> level, msg |-> text, pos |-> target_idx]

(***************************************************************************)
(* timestamp_diff: str(timedelta(seconds = int(end) - int(start))), on the *)
(* timestamps the model draws.                                             *)
(***************************************************************************)
int(s) ==
    CASE s = "990" -> 990
      [] s = "1000" -> 1000
      [] s = "3661" -> 3661

\* str(datetime.timedelta(seconds = n)) for 0 <= n < 86400: H:MM:SS.
timedelta_str(n) ==
    LET two(d) == IF d < 10 THEN "0" \o ToString(d) ELSE ToString(d)
    IN  ToString(n \div 3600) \o ":" \o two((n % 3600) \div 60)
        \o ":" \o two(n % 60)

timestamp_diff(start, end) == timedelta_str(int(end) - int(start))

\* The environment after lines 233-238 of make_request.
derived_fields(env) ==
    LET set(e, key) == e[key] \notin {"", None}
        e1 == IF set(env, "DRONE_BUILD_STARTED") /\ set(env, "DRONE_BUILD_FINISHED")
              THEN [env EXCEPT !["DRONE_BUILD_TOTALTIME"] =
                        timestamp_diff(env["DRONE_BUILD_STARTED"],
                                       env["DRONE_BUILD_FINISHED"])]
              ELSE env
    IN  IF set(e1, "DRONE_BUILD_CREATED") /\ set(e1, "DRONE_BUILD_STARTED")
        THEN [e1 EXCEPT !["DRONE_BUILD_QUEUEDTIME"] =
                  timestamp_diff(e1["DRONE_BUILD_CREATED"],
                                 e1["DRONE_BUILD_STARTED"])]
        ELSE e1

(***************************************************************************)
(* Templates.  A template is a list of tokens: literal text, or a          *)
(* reference to a context variable, optionally through the mandatory       *)
(* filter.  Rendered text is a list of strings; the deploy-target tag is   *)
(* the literal string the template leaves in the rendered text.            *)
(***************************************************************************)
Lit(s) == [kind |-> "text", name |-> s, mandatory |-> FALSE]
Var(n) == [kind |-> "var", name |-> n, mandatory |-> FALSE]
Mandatory(n) == [kind |-> "var", name |-> n, mandatory |-> TRUE]

Defined(env, name) == name \in DOMAIN env /\ env[name] # None

\* template.render(env_vars): an undefined mandatory reference raises
\* TemplateRuntimeError, an undefined plain reference renders as "".
jinja_render(tokens, env) ==
    IF \E k \in DOMAIN tokens :
           tokens[k].kind = "var" /\ tokens[k].mandatory
           /\ ~Defined(env, tokens[k].name)
    THEN [kind |-> "raise", text |-> <<>>]
    ELSE [kind |-> "ok",
          text |-> [k \in DOMAIN tokens |->
                      IF tokens[k].kind = "text" THEN tokens[k].name
                      ELSE IF Defined(env, tokens[k].name)
                           THEN env[tokens[k].name] ELSE ""]]

Contains(text, s) == \E k \in DOMAIN text : text[k] = s

Replace(text, old, new) ==
    [k \in DOMAIN text |-> IF text[k] = old THEN new ELSE text[k]]

\* replace_macroses without the check of the build event.
replace_macroses_any_event(raw, event, deploy_target) ==
    IF ~Contains(raw, DeployTargetTag)
    THEN [kind |-> "ok", text |-> raw]
    ELSE IF deploy_target \in {None, ""}
    THEN [kind |-> "exit", text |-> <<>>]
    ELSE [kind |-> "ok", text |-> Replace(raw, DeployTargetTag, deploy_target)]

\* replace_macroses(raw_payload) under build event event and DRONE_DEPLOY_TO
\* deploy_target (None when unset): the text returned, or a fatal error.
replace_macroses(raw, event, deploy_target) ==
    IF ~Contains(raw, DeployTargetTag)
    THEN [kind |-> "ok", text |-> raw]
    ELSE IF event \notin {"promote", "rollback"}
    THEN [kind |-> "exit", text |-> <<>>]
    ELSE IF deploy_target \in {None, ""}
    THEN [kind |-> "exit", text |-> <<>>]
    ELSE [kind |-> "ok", text |-> Replace(raw, DeployTargetTag, deploy_target)]

(***************************************************************************)
(* Template sources.  A template file is named by its template set and its *)
(* name; render_template exits when the file is missing.  The results are  *)
(* "ok" with the text, "exit" (sys.exit(1) was called) or "raise" (an      *)
(* exception left the function).                                           *)
(***************************************************************************)
TemplatePaths ==
    {<<"default", "create">>, <<"default", "_matchers">>,
     <<"custom", "create">>, <<"custom", "_matchers">>}

NoFile == [exists |-> FALSE, tokens |-> <<>>]
File(tokens) == [exists |-> TRUE, tokens |-> tokens]

render_template(target_template, env) ==
    LET f == template_files[target_template] IN
    IF ~f.exists
    THEN [kind |-> "exit", text |-> <<>>]
    ELSE LET r == jinja_render(f.tokens, env) IN
         IF r.kind = "raise" THEN r
         ELSE replace_macroses(r.text, env["DRONE_BUILD_EVENT"], env["DRONE_DEPLOY_TO"])

render_custom_template(custom_template, env) ==
    LET r == jinja_render(custom_template, env) IN
    IF r.kind = "raise" THEN r
    ELSE replace_macroses(r.text, env["DRONE_BUILD_EVENT"], env["DRONE_DEPLOY_TO"])

\* The payload with the file of the template set taking precedence over the
\* inline template.
payload_file_first(template_name, env) ==
    LET set(key) == env[key] \notin {"", None}
        r == IF set("PLUGIN_TEMPLATE")
             THEN render_template(<<env["PLUGIN_TEMPLATE"], template_name>>, env)
             ELSE render_custom_template(PLUGIN_CUSTOM_TEMPLATE, env)
    IN  IF template_name = "create"
           /\ (PLUGIN_CUSTOM_TEMPLATE # <<>> \/ set("PLUGIN_TEMPLATE"))
        THEN IF r.kind = "ok"
             THEN [kind |-> "ok", rendered |-> TRUE, text |-> r.text]
             ELSE [kind |-> "exit", rendered |-> FALSE, text |-> <<>>]
        ELSE [kind |-> "ok", rendered |-> FALSE, text |-> <<>>]

\* make_request, lines 224 and 248-258: the payload of a request, rendered
\* when template_name is 'create'.  rendered tells a rendered text from the
\* initial {}.  Every failure of the rendering ends in sys.exit(1).
payload(template_name, env) ==
    LET set(key) == env[key] \notin {"", None}
        r == IF PLUGIN_CUSTOM_TEMPLATE # <<>>
             THEN render_custom_template(PLUGIN_CUSTOM_TEMPLATE, env)
             ELSE render_template(<<env["PLUGIN_TEMPLATE"], template_name>>, env)
    IN  IF template_name = "create"
           /\ (PLUGIN_CUSTOM_TEMPLATE # <<>> \/ set("PLUGIN_TEMPLATE"))
        THEN IF r.kind = "ok"
             THEN [kind |-> "ok", rendered |-> TRUE, text |-> r.text]
             ELSE [kind |-> "exit", rendered |-> FALSE, text |-> <<>>]
        ELSE [kind |-> "ok", rendered |-> FALSE, text |-> <<>>]

\* make_request, lines 248-254: the template the payload of a request is
\* rendered from, as the list of the calls of a render function made: the
\* inline template when it is set, else the file of the template set when
\* that is set, else none.
template_source(template_name, env) ==
    LET set(key) == env[key] \notin {"", None} IN
    IF template_name # "create" THEN <<>>
    ELSE IF PLUGIN_CUSTOM_TEMPLATE # <<>>
    THEN <<[source |-> "inline", template |-> <<"", template_name>>]>>
    ELSE IF set("PLUGIN_TEMPLATE")
    THEN <<[source |-> "file",
            template |-> <<env["PLUGIN_TEMPLATE"], template_name>>]>>
    ELSE <<>>

\* find_silences, line 146: the file of the matcher fragment.
matchers_template(env) ==
    [source |-> "file",
     template |-> <<IF env["PLUGIN_TEMPLATE"] = None THEN "default"
                    ELSE env["PLUGIN_TEMPLATE"], "_matchers">>]

\* One call of render_template or render_custom_template: the template, the
\* position of the target it is made for, env_vars = dict(os.environ.items())
\* as the call reads it, and how the call ended.
Rendered(src, env, kind) ==
    [source |-> src.source, template |-> src.template, pos |-> target_idx,
     context |-> env, kind |-> kind]

(***************************************************************************)
(* HTTP.  A response is a transport failure (http_obj.request raised) or a *)
(* status with a content-type header (None when the header is absent) and  *)
(* a body.                                                                 *)
(***************************************************************************)
TransportError ==
    [kind |-> "transport", status |-> 0, ctype |-> None, body |-> None]
Status(st, ct, body) ==
    [kind |-> "http", status |-> st, ctype |-> ct, body |-> body]

ContentTypes == {"application/json", "text/html", None}

\* The bodies a response can carry, by what decoding them yields: a JSON
\* object with a silenceID, a JSON list of silences (the list itself is
\* drawn apart), a JSON object without silenceID, or bytes that do not
\* decode as JSON.
Bodies == {"silenceID", "list", "object", "undecodable"}

\* The responses to each kind of request.  A DELETE answers with a status
\* only, and nothing else of its response is read.
PostResponses ==
    {TransportError, Status(500, "text/html", "undecodable")}
    \cup {Status(200, ct, b) : ct \in ContentTypes, b \in Bodies}
GetResponses ==
    {TransportError, Status(500, "text/html", "undecodable"),
     Status(200, None, "list"), Status(200, "text/html", "undecodable"),
     Status(200, "application/json", "undecodable"),
     Status(200, "application/json", "list")}
DeleteResponses ==
    {TransportError, Status(500, "text/html", "undecodable"),
     Status(200, "application/json", "object")}

\* make_request without the check of the status.
make_request_any_status(resp) ==
    IF resp.kind = "transport" THEN "none" ELSE "return"

\* make_request, lines 292-324: what the call does with the response:
\* "return" (response, content), "exit" for sys.exit(1), or "none" when an
\* exception of the transport was caught and the function falls off its end.
make_request(resp) ==
    IF resp.kind = "transport" THEN "none"
    ELSE IF resp.status \in valid_response_codes THEN "return"
    ELSE "exit"

Sent(method, id, resp, found) ==
    [method |-> method, pos |-> target_idx, id |-> id, resp |-> resp,
     found |-> found]

(***************************************************************************)
(* Silences, as the backend lists them.  missing names the key an entry    *)
(* lacks ("" when it has them all).  Matchers are lists of matcher names.  *)
(***************************************************************************)
Ids == {"s1", "s2"}
States == {"active", "expired"}
Authors == {plugin_user_agent, "alice"}
OurComment == "Created for build#7 of octo/repo, see https://drone/octo/repo/7"
Comments ==
    {OurComment, "Created for build#8 of octo/repo, see https://drone/octo/repo/8"}
OurMatchers == <<"m1", "m2">>
MatcherLists == {OurMatchers, <<"m1">>, <<"m2", "m1">>}

Silence(id, state, createdBy, comment, matchers, missing) ==
    [id |-> id, state |-> state, createdBy |-> createdBy, comment |-> comment,
     matchers |-> matchers, missing |-> missing]

WellFormedSilences ==
    {Silence(id, st, a, c, m, "") :
        id \in Ids, st \in States, a \in Authors, c \in Comments,
        m \in MatcherLists}

\* The silences of the runs: the one a create run of this build leaves, and
\* those that differ from it in one respect.
RunSilences ==
    UNION {{Silence(id, "active", plugin_user_agent, OurComment, OurMatchers, ""),
            Silence(id, "expired", plugin_user_agent, OurComment, OurMatchers, ""),
            Silence(id, "active", "alice", OurComment, OurMatchers, ""),
            Silence(id, "active", plugin_user_agent, OurComment, <<"m1">>, ""),
            Silence(id, "active", plugin_user_agent, OurComment, OurMatchers, "status")}
           : id \in Ids}

\* Lists of at most n silences of S.
Lists(S, n) == UNION {[1..k -> S] : k \in 0..n}

\* The lists a backend answers with: it gives each silence its own
\* identifier.
SilenceLists(S, n) ==
    {l \in Lists(S, n) :
        \A a, b \in DOMAIN l : a # b => l[a].id # l[b].id}

(***************************************************************************)
(* find_silences, lines 155-170: the loop over the decoded list.  The      *)
(* result is the identifiers appended and whether an exception ended the   *)
(* loop.  required is the parsed matcher fragment: has tells whether it    *)
(* holds the key 'matchers'.                                               *)
(***************************************************************************)
\* The loop with a strict match that accepts matcher lists sharing a matcher.
RECURSIVE match_loop_overlap(_, _, _, _, _)
match_loop_overlap(list, k, ids, strict, required) ==
    IF k > Len(list) THEN [ids |-> ids, raised |-> FALSE]
    ELSE LET e == list[k]
             raise == [ids |-> ids, raised |-> TRUE]
             continue == match_loop_overlap(list, k + 1, ids, strict, required)
             append == match_loop_overlap(list, k + 1, Append(ids, e.id), strict, required)
         IN  IF e.missing = "status" THEN raise
             ELSE IF e.state = "expired" THEN continue
             ELSE IF e.missing = "createdBy" THEN raise
             ELSE IF e.createdBy # silence_author THEN continue
             ELSE IF e.missing = "comment" THEN raise
             ELSE IF e.comment # silence_comment THEN continue
             ELSE IF ~strict
                  THEN IF e.missing = "id" THEN raise ELSE append
             ELSE IF e.missing = "matchers" \/ ~required.has THEN raise
             ELSE IF \E a \in DOMAIN e.matchers, b \in DOMAIN required.matchers :
                         e.matchers[a] = required.matchers[b]
                  THEN IF e.missing = "id" THEN raise ELSE append
             ELSE continue

\* The loop without the test of the state.
RECURSIVE match_loop_expired(_, _, _, _, _)
match_loop_expired(list, k, ids, strict, required) ==
    IF k > Len(list) THEN [ids |-> ids, raised |-> FALSE]
    ELSE LET e == list[k]
             raise == [ids |-> ids, raised |-> TRUE]
             continue == match_loop_expired(list, k + 1, ids, strict, required)
             append == match_loop_expired(list, k + 1, Append(ids, e.id), strict, required)
         IN  IF e.missing = "status" THEN raise
             ELSE IF e.missing = "createdBy" THEN raise
             ELSE IF e.createdBy # silence_author THEN continue
             ELSE IF e.missing = "comment" THEN raise
             ELSE IF e.comment # silence_comment THEN continue
             ELSE IF ~strict
                  THEN IF e.missing = "id" THEN raise ELSE append
             ELSE IF e.missing = "matchers" \/ ~required.has THEN raise
             ELSE IF e.matchers = required.matchers
                  THEN IF e.missing = "id" THEN raise ELSE append
             ELSE continue

RECURSIVE match_loop(_, _, _, _, _)
match_loop(list, k, ids, strict, required) ==
    IF k > Len(list) THEN [ids |-> ids, raised |-> FALSE]
    ELSE LET e == list[k]
             raise == [ids |-> ids, raised |-> TRUE]
             continue == match_loop(list, k + 1, ids, strict, required)
             append == match_loop(list, k + 1, Append(ids, e.id), strict, required)
         IN  IF e.missing = "status" THEN raise
             ELSE IF e.state = "expired" THEN continue
             ELSE IF e.missing = "createdBy" THEN raise
             ELSE IF e.createdBy # silence_author THEN continue
             ELSE IF e.missing = "comment" THEN raise
             ELSE IF e.comment # silence_comment THEN continue
             ELSE IF ~strict
                  THEN IF e.missing = "id" THEN raise ELSE append
             ELSE IF e.missing = "matchers" \/ ~required.has THEN raise
             ELSE IF e.matchers = required.matchers
                  THEN IF e.missing = "id" THEN raise ELSE append
             ELSE continue

\* json.loads('{' + text + '}'), line 147: a fragment with an empty piece
\* is not JSON; the empty fragment is the object {} without 'matchers'.
json_loads(text) ==
    IF Contains(text, "") THEN [kind |-> "raise", has |-> FALSE, matchers |-> <<>>]
    ELSE IF text = <<>> THEN [kind |-> "ok", has |-> FALSE, matchers |-> <<>>]
    ELSE [kind |-> "ok", has |-> TRUE, matchers |-> text]

\* A matcher fragment that renders only while the derived fields are unset.
required_matchers_late(env) ==
    IF env["DRONE_BUILD_TOTALTIME"] = None
    THEN [kind |-> "ok", has |-> TRUE, matchers |-> OurMatchers]
    ELSE [kind |-> "raise", has |-> FALSE, matchers |-> <<>>]

\* find_silences, lines 145-147: the matcher fragment of the template set.
required_matchers(env) ==
    LET set == IF env["PLUGIN_TEMPLATE"] = None THEN "default"
               ELSE env["PLUGIN_TEMPLATE"]
        r == render_template(<<set, "_matchers">>, env)
    IN  IF r.kind = "ok" THEN json_loads(r.text)
        ELSE [kind |-> r.kind, has |-> FALSE, matchers |-> <<>>]

(***************************************************************************)
(* The runs.  The environment of a run: the build metadata Drone sets, the *)
(* plugin settings and the template files.                                 *)
(***************************************************************************)
BaseEnv ==
    [k \in EnvKeys |->
        CASE k = "DRONE_REPO_OWNER" -> "octo"
          [] k = "DRONE_REPO_NAME" -> "repo"
          [] k = "DRONE_BUILD_LINK" -> "https://drone/octo/repo/7"
          [] k = "DRONE_BUILD_NUMBER" -> "7"
          [] k = "DRONE_BUILD_CREATED" -> "990"
          [] k = "DRONE_BUILD_STARTED" -> "1000"
          [] k = "DRONE_BUILD_FINISHED" -> "3661"
          [] k = "DRONE_BUILD_EVENT" -> "push"
          [] k = "DRONE_STAGE_NAME" -> "deploy"
          [] k = "PLUGIN_DURATION" -> "60"
          [] OTHER -> None]

With(env, key, value) == [env EXCEPT ![key] = value]

UrlList(n) == [k \in 1..n |-> "http://am" \o ToString(k)]

PlainTemplate == <<Lit("text")>>
MacroTemplate == <<Lit("text"), Lit(DeployTargetTag)>>
BrokenTemplate == <<Lit("text"), Mandatory("PLUGIN_FOO")>>
MatchersTemplate == <<Lit("m1"), Lit("m2")>>
DerivedTemplate == <<Lit("m1"), Mandatory("DRONE_BUILD_TOTALTIME")>>

NoFiles == [p \in TemplatePaths |-> NoFile]

Config(env, urls, custom, files) ==
    [env |-> env, urls |-> urls, custom |-> custom, files |-> files]

\* Settings the start-up checks of __main__ refuse.
InvalidConfigs ==
    {Config(With(BaseEnv, "PLUGIN_ACTION", "create"), <<>>, <<>>, NoFiles),
     Config(BaseEnv, UrlList(1), <<>>, NoFiles),
     Config(With(BaseEnv, "PLUGIN_ACTION", "restart"), UrlList(1), <<>>, NoFiles),
     Config(With(With(BaseEnv, "PLUGIN_ACTION", "create"), "PLUGIN_DURATION", None),
            UrlList(1), <<>>, NoFiles),
     Config(With(With(BaseEnv, "PLUGIN_ACTION", "delete"), "DRONE_BUILD_EVENT", "deploy"),
            UrlList(1), <<>>, NoFiles)}
    \cup {Config(With(With(BaseEnv, "PLUGIN_ACTION", a), k, None),
                 UrlList(1), <<>>, NoFiles) :
            a \in supported_actions, k \in required_env}

CreateConfigs ==
    {Config([BaseEnv EXCEPT !["PLUGIN_ACTION"] = "create",
                            !["PLUGIN_TEMPLATE"] = t,
                            !["DRONE_BUILD_EVENT"] = ev,
                            !["DRONE_DEPLOY_TO"] = d],
            UrlList(n), c, [NoFiles EXCEPT ![<<"custom", "create">>] = f]) :
        n \in 1..MaxTargets, t \in {None, "custom"},
        ev \in {"push", "promote"}, d \in {None, "prod"},
        c \in {<<>>, PlainTemplate, MacroTemplate},
        f \in {NoFile, File(PlainTemplate), File(BrokenTemplate)}}
    \cup
    {Config(With(BaseEnv, "PLUGIN_ACTION", "create"), UrlList(n),
            DerivedTemplate, NoFiles) :
        n \in 1..MaxTargets}

DeleteConfigs ==
    {Config(With(BaseEnv, "PLUGIN_ACTION", "delete"), UrlList(n), <<>>, NoFiles) :
        n \in 1..MaxTargets}
    \cup
    {Config([BaseEnv EXCEPT !["PLUGIN_ACTION"] = "delete",
                            !["PLUGIN_STRICT_MATCH"] = "true"],
            UrlList(n), <<>>, [NoFiles EXCEPT ![<<"default", "_matchers">>] = f]) :
        n \in 1..MaxTargets,
        f \in {NoFile, File(MatchersTemplate), File(BrokenTemplate),
                File(MacroTemplate), File(DerivedTemplate)}}

Configs == InvalidConfigs \cup CreateConfigs \cup DeleteConfigs

Idle ==
    /\ exit_code = Running
    /\ target_idx = 0
    /\ silence_ids = <<>>
    /\ silence_idx = 0
    /\ silences_list = <<>>
    /\ request_payload = [rendered |-> FALSE, text |-> <<>>]
    /\ http = <<>>
    /\ log = <<>>
    /\ renders = <<>>

Init ==
    /\ \E c \in Configs :
          /\ environ = c.env
          /\ PLUGIN_URLS = c.urls
          /\ PLUGIN_CUSTOM_TEMPLATE = c.custom
          /\ template_files = c.files
    /\ raw_payload = <<>>
    /\ pc = "main"
    /\ Idle

Static == <<PLUGIN_URLS, PLUGIN_CUSTOM_TEMPLATE, template_files, raw_payload>>

\* sys.exit(code), or the end of the process by an uncaught exception,
\* after the messages msgs.
Exit(code, msgs) ==
    /\ pc' = "done"
    /\ exit_code' = {code}
    /\ log' = log \o msgs
    /\ UNCHANGED <<target_idx, silence_ids, silence_idx>>

(***************************************************************************)
(* __main__, lines 379-415, and the start of perform_action, lines         *)
(* 331-335.                                                                *)
(***************************************************************************)
Main ==
    /\ pc = "main"
    /\ UNCHANGED <<Static, silences_list, request_payload, http, renders>>
    /\ LET warn == IF in_env("PLUGIN_TEMPLATE") \/ PLUGIN_CUSTOM_TEMPLATE # <<>>
                   THEN <<>> ELSE <<Msg("WARNING", "rendering default")>>
       IN
       IF PLUGIN_URLS = <<>>
       THEN Exit(1, <<Msg("ERROR", "urls")>>) /\ UNCHANGED environ
       ELSE IF silence_action \notin supported_actions
       THEN Exit(1, <<Msg("ERROR", "action")>>) /\ UNCHANGED environ
       ELSE IF silence_action = "create" /\ silence_duration \in {"", None}
       THEN Exit(1, <<Msg("ERROR", "duration")>>) /\ UNCHANGED environ
       ELSE IF \E key \in required_env : environ[key] = None
       THEN Exit(1, warn \o <<Msg("ERROR", "environment")>>) /\ UNCHANGED environ
       ELSE IF build_event \notin supported_build_events
       THEN Exit(1, warn \o <<Msg("ERROR", "event")>>) /\ UNCHANGED environ
       ELSE /\ environ' = [environ EXCEPT !["SILENCE_COMMENT"] = silence_comment,
                                          !["SILENCE_CREATED_BY"] = silence_author]
            /\ pc' = "loop"
            /\ target_idx' = 1
            /\ log' = log \o warn
            /\ UNCHANGED <<exit_code, silence_ids, silence_idx>>

\* A loop that skips a target.
NextTarget_skip ==
    /\ pc' = "loop"
    /\ target_idx' = target_idx + 2
    /\ UNCHANGED exit_code

\* The for loop of perform_action moves to the next target.
NextTarget ==
    /\ pc' = "loop"
    /\ target_idx' = target_idx + 1
    /\ UNCHANGED exit_code

(***************************************************************************)
(* perform_action, lines 338-352: one iteration of a create run, with the  *)
(* call of make_request it makes.                                          *)
(***************************************************************************)
\* A create iteration that takes an unexpected content-type for an error.
Created_strict(r, resp) ==
    IF r = "none"
    THEN Exit(1, <<Msg("ERROR", "request"), Msg("TRACEBACK", "TypeError")>>)
    ELSE IF r = "exit"
    THEN Exit(1, <<Msg("ERROR", "status")>>)
    ELSE IF resp.ctype = None
    THEN Exit(1, <<Msg("NOTICE", "sent"), Msg("TRACEBACK", "KeyError")>>)
    ELSE IF resp.ctype # "application/json"
    THEN Exit(1, <<Msg("NOTICE", "sent"), Msg("ERROR", "content-type")>>)
    ELSE IF resp.body = "silenceID"
    THEN /\ NextTarget
         /\ log' = log \o <<Msg("NOTICE", "sent"), Msg("NOTICE", "added")>>
         /\ UNCHANGED <<silence_ids, silence_idx>>
    ELSE Exit(1, <<Msg("NOTICE", "sent"), Msg("TRACEBACK", "TypeError")>>)

\* A create iteration that logs a transport failure and goes on.
Created_tolerant(r, resp) ==
    IF r = "none"
    THEN /\ NextTarget
         /\ log' = log \o <<Msg("ERROR", "request")>>
         /\ UNCHANGED <<silence_ids, silence_idx>>
    ELSE IF r = "exit"
    THEN Exit(1, <<Msg("ERROR", "status")>>)
    ELSE IF resp.ctype = None
    THEN Exit(1, <<Msg("NOTICE", "sent"), Msg("TRACEBACK", "KeyError")>>)
    ELSE IF resp.ctype # "application/json"
    THEN /\ NextTarget
         /\ log' = log \o <<Msg("NOTICE", "sent"), Msg("WARNING", "content-type")>>
         /\ UNCHANGED <<silence_ids, silence_idx>>
    ELSE IF resp.body = "silenceID"
    THEN /\ NextTarget
         /\ log' = log \o <<Msg("NOTICE", "sent"), Msg("NOTICE", "added")>>
         /\ UNCHANGED <<silence_ids, silence_idx>>
    ELSE Exit(1, <<Msg("NOTICE", "sent"), Msg("TRACEBACK", "TypeError")>>)

\* A create iteration that goes on when the body holds no silenceID.
Created_skip_body(r, resp) ==
    IF r = "none"
    THEN Exit(1, <<Msg("ERROR", "request"), Msg("TRACEBACK", "TypeError")>>)
    ELSE IF r = "exit"
    THEN Exit(1, <<Msg("ERROR", "status")>>)
    ELSE IF resp.ctype = None
    THEN Exit(1, <<Msg("NOTICE", "sent"), Msg("TRACEBACK", "KeyError")>>)
    ELSE IF resp.ctype # "application/json"
    THEN /\ NextTarget
         /\ log' = log \o <<Msg("NOTICE", "sent"), Msg("WARNING", "content-type")>>
         /\ UNCHANGED <<silence_ids, silence_idx>>
    ELSE IF resp.body = "silenceID"
    THEN /\ NextTarget
         /\ log' = log \o <<Msg("NOTICE", "sent"), Msg("NOTICE", "added")>>
         /\ UNCHANGED <<silence_ids, silence_idx>>
    ELSE /\ NextTarget
         /\ log' = log \o <<Msg("NOTICE", "sent"), Msg("ERROR", "decode")>>
         /\ UNCHANGED <<silence_ids, silence_idx>>

\* Lines 347-352: what the iteration does once make_request has ended as r
\* on the response resp.  Unpacking the None of a caught transport failure
\* raises TypeError, reading the content-type of a response without that
\* header raises KeyError, and so does reading silenceID from a body that
\* decodes to something without it; nothing catches them.
Created(r, resp) ==
    IF r = "none"
    THEN Exit(1, <<Msg("ERROR", "request"), Msg("TRACEBACK", "TypeError")>>)
    ELSE IF r = "exit"
    THEN Exit(1, <<Msg("ERROR", "status")>>)
    ELSE IF resp.ctype = None
    THEN Exit(1, <<Msg("NOTICE", "sent"), Msg("TRACEBACK", "KeyError")>>)
    ELSE IF resp.ctype # "application/json"
    THEN /\ NextTarget
         /\ log' = log \o <<Msg("NOTICE", "sent"), Msg("WARNING", "content-type")>>
         /\ UNCHANGED <<silence_ids, silence_idx>>
    ELSE IF resp.body = "undecodable"
    THEN Exit(1, <<Msg("NOTICE", "sent"), Msg("ERROR", "decode"),
                   Msg("TRACEBACK", "TypeError")>>)
    ELSE IF resp.body = "list"
    THEN Exit(1, <<Msg("NOTICE", "sent"), Msg("TRACEBACK", "TypeError")>>)
    ELSE IF resp.body = "object"
    THEN Exit(1, <<Msg("NOTICE", "sent"), Msg("TRACEBACK", "KeyError")>>)
    ELSE /\ NextTarget
         /\ log' = log \o <<Msg("NOTICE", "sent"), Msg("NOTICE", "added")>>
         /\ UNCHANGED <<silence_ids, silence_idx>>

CreateSilence ==
    /\ pc = "loop"
    /\ silence_action = "create"
    /\ target_idx <= Len(PLUGIN_URLS)
    /\ UNCHANGED <<Static, silences_list>>
    /\ environ' = derived_fields(environ)
    /\ LET p == payload("create", derived_fields(environ))
           src == template_source("create", derived_fields(environ))
       IN
       /\ renders' = renders \o [k \in DOMAIN src |->
                                   Rendered(src[k], derived_fields(environ), p.kind)]
       /\ IF p.kind = "exit"
          THEN /\ Exit(1, <<Msg("ERROR", "template")>>)
               /\ UNCHANGED <<request_payload, http>>
          ELSE \E resp \in PostResponses :
               /\ request_payload' = [rendered |-> p.rendered, text |-> p.text]
               /\ http' = Append(http, Sent("POST", None, resp, NoIds))
               /\ Created(make_request(resp), resp)

(***************************************************************************)
(* perform_action, lines 354-359 and 366-367, with find_silences, lines    *)
(* 137-170: the search of one target in a delete run.                      *)
(***************************************************************************)
\* A delete iteration that takes a search without matches for an error.
Found_abort(ids, msgs) ==
    /\ silence_ids' = ids
    /\ IF ids # NoIds /\ ids # <<>>
       THEN /\ pc' = "delete"
            /\ silence_idx' = 1
            /\ log' = log \o msgs
            /\ UNCHANGED <<target_idx, exit_code>>
       ELSE /\ pc' = "done"
            /\ exit_code' = {1}
            /\ log' = log \o msgs \o <<Msg("ERROR", "no matching silences")>>
            /\ UNCHANGED <<target_idx, silence_idx>>

\* What perform_action does with the result of find_silences.
Found(ids, msgs) ==
    /\ silence_ids' = ids
    /\ IF ids # NoIds /\ ids # <<>>
       THEN /\ pc' = "delete"
            /\ silence_idx' = 1
            /\ log' = log \o msgs
            /\ UNCHANGED <<target_idx, exit_code>>
       ELSE /\ NextTarget
            /\ silence_idx' = 0
            /\ log' = log \o msgs \o <<Msg("WARNING", "no matching silences")>>

FindSilences ==
    /\ pc = "loop"
    /\ silence_action = "delete"
    /\ target_idx <= Len(PLUGIN_URLS)
    /\ UNCHANGED <<Static, request_payload>>
    /\ LET required == IF strict_match THEN required_matchers(environ)
                       ELSE [kind |-> "ok", has |-> FALSE, matchers |-> <<>>]
       IN
       /\ renders' = IF strict_match
                     THEN Append(renders, Rendered(matchers_template(environ),
                                                   environ, required.kind))
                     ELSE renders
       /\ IF required.kind = "exit"
          THEN /\ Exit(1, <<Msg("ERROR", "template")>>)
               /\ UNCHANGED <<environ, silences_list, http>>
          ELSE IF required.kind = "raise"
          THEN /\ Exit(1, <<Msg("TRACEBACK", "template")>>)
               /\ UNCHANGED <<environ, silences_list, http>>
          ELSE
          /\ environ' = derived_fields(environ)
          /\ \E resp \in GetResponses :
             \E list \in SilenceLists(RunSilences, MaxSilences) :
             /\ (resp.body # "list" \/ resp.ctype # "application/json") => list = <<>>
             /\ LET r == make_request(resp)
                    searching == Msg("NOTICE", "searching")
                    m == match_loop(list, 1, <<>>, strict_match, required)
                    failed == r # "return" \/ resp.ctype = None
                    ids == IF failed \/ resp.ctype # "application/json" THEN NoIds
                           ELSE m.ids
                IN
                /\ http' = Append(http, Sent("GET", None, resp, ids))
                /\ silences_list' = list
                /\ IF r = "none"
                   THEN /\ Exit(1, <<searching, Msg("ERROR", "request"),
                                     Msg("TRACEBACK", "TypeError")>>)
                   ELSE IF r = "exit"
                   THEN Exit(1, <<searching, Msg("ERROR", "status")>>)
                   ELSE IF resp.ctype = None
                   THEN Exit(1, <<searching, Msg("NOTICE", "sent"),
                                  Msg("TRACEBACK", "KeyError")>>)
                   ELSE IF resp.ctype # "application/json"
                   THEN Found(NoIds, <<searching, Msg("NOTICE", "sent"),
                                       Msg("WARNING", "content-type")>>)
                   ELSE IF resp.body = "undecodable"
                   THEN Found(<<>>, <<searching, Msg("NOTICE", "sent"),
                                      Msg("ERROR", "decode")>>)
                   ELSE IF m.raised
                   THEN Found(m.ids, <<searching, Msg("NOTICE", "sent"),
                                       Msg("ERROR", "searching failed")>>)
                   ELSE Found(m.ids, <<searching, Msg("NOTICE", "sent")>>)

(***************************************************************************)
(* perform_action, lines 361-365: the DELETE of one matched silence, with  *)
(* the call of make_request it makes; after the last one the loop over the *)
(* targets goes on.                                                        *)
(***************************************************************************)
\* The for loop over silence_ids moves on: to the next identifier, or,
\* after the last one, to the next target.
NextSilence ==
    IF silence_idx < Len(silence_ids)
    THEN /\ silence_idx' = silence_idx + 1
         /\ UNCHANGED <<pc, target_idx, exit_code>>
    ELSE /\ silence_idx' = 0
         /\ NextTarget

\* A loop that sends the DELETE again after a transport failure.
Deleted_retry(r) ==
    LET deleting == Msg("NOTICE", "deleting") IN
    IF r = "none"
    THEN /\ log' = log \o <<deleting, Msg("ERROR", "request")>>
         /\ UNCHANGED <<pc, target_idx, exit_code, silence_idx>>
    ELSE IF r = "exit"
    THEN Exit(1, <<deleting, Msg("ERROR", "status")>>)
    ELSE NextSilence /\ log' = log \o <<deleting, Msg("NOTICE", "sent")>>

\* What the loop does once make_request has ended as r: the result of the
\* call is not read.
Deleted(r) ==
    LET deleting == Msg("NOTICE", "deleting") IN
    IF r = "none"
    THEN NextSilence /\ log' = log \o <<deleting, Msg("ERROR", "request")>>
    ELSE IF r = "exit"
    THEN Exit(1, <<deleting, Msg("ERROR", "status")>>)
    ELSE NextSilence /\ log' = log \o <<deleting, Msg("NOTICE", "sent")>>

DeleteSilence ==
    /\ pc = "delete"
    /\ silence_idx <= Len(silence_ids)
    /\ UNCHANGED <<Static, silences_list, silence_ids, request_payload, renders>>
    /\ environ' = derived_fields(environ)
    /\ \E resp \in DeleteResponses :
       /\ http' = Append(http, Sent("DELETE", silence_ids[silence_idx], resp, NoIds))
       /\ Deleted(make_request(resp))

\* __main__, line 417: sys.exit(0) once perform_action has returned.
Finish ==
    /\ pc = "loop"
    /\ target_idx > Len(PLUGIN_URLS)
    /\ pc' = "done"
    /\ exit_code' = {0}
    /\ UNCHANGED <<environ, Static, target_idx, silence_ids, silence_idx,
                   silences_list, request_payload, http, log, renders>>

Next ==
    \/ Main
    \/ CreateSilence
    \/ FindSilences
    \/ DeleteSilence
    \/ Finish

Spec == Init /\ [][Next]_vars

(***************************************************************************)
(* The runs under every outcome of the start-up checks of __main__: every  *)
(* action, duration and build event, with and without target URLs, and     *)
(* each required variable absent or empty in turn.                         *)
(***************************************************************************)
MainConfigs ==
    {Config([BaseEnv EXCEPT !["PLUGIN_ACTION"] = a,
                            !["PLUGIN_DURATION"] = d,
                            !["DRONE_BUILD_EVENT"] = ev],
            urls, PlainTemplate, NoFiles) :
        a \in supported_actions \cup {None, "", "restart"},
        d \in {None, "", "60"},
        ev \in supported_build_events \cup {"deploy"},
        urls \in {<<>>, UrlList(1)}}
    \cup
    {Config([BaseEnv EXCEPT !["PLUGIN_ACTION"] = a, ![key] = v],
            UrlList(1), PlainTemplate, NoFiles) :
        a \in supported_actions, key \in required_env, v \in {None, ""}}

InitMain ==
    /\ \E c \in MainConfigs :
          /\ environ = c.env
          /\ PLUGIN_URLS = c.urls
          /\ PLUGIN_CUSTOM_TEMPLATE = c.custom
          /\ template_files = c.files
    /\ raw_payload = <<>>
    /\ pc = "main"
    /\ Idle

SpecMain == InitMain /\ [][Next]_vars

(***************************************************************************)
(* replace_macroses on its own: every supported build event, every         *)
(* DRONE_DEPLOY_TO and every rendered text of at most MaxTextLen pieces.   *)
(***************************************************************************)
Texts == Lists({"text", DeployTargetTag}, MaxTextLen)

InitMacro ==
    /\ \E ev \in supported_build_events, d \in {None, "", "prod"} :
          environ = [BaseEnv EXCEPT !["PLUGIN_ACTION"] = "create",
                                    !["DRONE_BUILD_EVENT"] = ev,
                                    !["DRONE_DEPLOY_TO"] = d]
    /\ raw_payload \in Texts
    /\ PLUGIN_URLS = UrlList(1)
    /\ PLUGIN_CUSTOM_TEMPLATE = <<>>
    /\ template_files = NoFiles
    /\ pc = "macro"
    /\ Idle

ReplaceMacroses ==
    /\ pc = "macro"
    /\ UNCHANGED <<environ, Static, silences_list, http, renders>>
    /\ LET r == replace_macroses(raw_payload, build_event, environ["DRONE_DEPLOY_TO"])
       IN  IF r.kind = "exit"
           THEN Exit(1, <<Msg("ERROR", "deploy_target")>>) /\ UNCHANGED request_payload
           ELSE /\ request_payload' = [rendered |-> TRUE, text |-> r.text]
                /\ pc' = "replaced"
                /\ UNCHANGED <<exit_code, target_idx, silence_ids, silence_idx, log>>

NextMacro == ReplaceMacroses

SpecMacro == InitMacro /\ [][NextMacro]_vars

(***************************************************************************)
(* The loop of find_silences on its own: every list of at most MaxSilences *)
(* well-formed silences, with and without strict matching.                 *)
(***************************************************************************)
InitFind ==
    /\ \E strict \in {None, "true"} :
          environ = [BaseEnv EXCEPT !["PLUGIN_ACTION"] = "delete",
                                    !["PLUGIN_STRICT_MATCH"] = strict]
    /\ silences_list \in Lists(WellFormedSilences, MaxSilences)
    /\ PLUGIN_URLS = UrlList(1)
    /\ PLUGIN_CUSTOM_TEMPLATE = <<>>
    /\ template_files = [NoFiles EXCEPT ![<<"default", "_matchers">>] =
                                             File(MatchersTemplate)]
    /\ pc = "find"
    /\ exit_code = Running
    /\ target_idx = 1
    /\ silence_ids = <<>>
    /\ silence_idx = 0
    /\ raw_payload = <<>>
    /\ request_payload = [rendered |-> FALSE, text |-> <<>>]
    /\ http = <<>>
    /\ log = <<>>
    /\ renders = <<>>

MatchSilences ==
    /\ pc = "find"
    /\ pc' = "found"
    /\ silence_ids' = match_loop(silences_list, 1, <<>>, strict_match,
                                 required_matchers(environ)).ids
    /\ UNCHANGED <<environ, Static, exit_code, target_idx, silence_idx,
                   silences_list, request_payload, http, log, renders>>

NextFind == MatchSilences

SpecFind == InitFind /\ [][NextFind]_vars

(***************************************************************************)
(* The fingerprint across two processes: a create run of some build writes *)
(* SILENCE_CREATED_BY and SILENCE_COMMENT, the backend keeps a silence     *)
(* that carries them, and a later delete run of the same build, which may  *)
(* differ in everything but the build number, the repository and the build *)
(* link, searches a list that holds it.                                    *)
(***************************************************************************)
BuildContexts ==
    {[BaseEnv EXCEPT !["PLUGIN_ACTION"] = "create",
                     !["DRONE_BUILD_NUMBER"] = number,
                     !["DRONE_REPO_OWNER"] = owner,
                     !["DRONE_REPO_NAME"] = name,
                     !["DRONE_BUILD_LINK"] = link] :
        number \in {"7", "8"}, owner \in {"octo", "acme"},
        name \in {"repo", "lib"},
        link \in {"https://drone/octo/repo/7", "https://ci/acme/lib/8"}}

\* The environments of a later delete run of the build of env.
LaterEnvs(env) ==
    {[env EXCEPT !["PLUGIN_ACTION"] = "delete",
                 !["PLUGIN_DURATION"] = None,
                 !["DRONE_BUILD_EVENT"] = ev,
                 !["DRONE_STAGE_NAME"] = stage,
                 !["DRONE_BUILD_FINISHED"] = finished,
                 !["SILENCE_COMMENT"] = None,
                 !["SILENCE_CREATED_BY"] = None] :
        ev \in {"push", "tag"}, stage \in {"deploy", "cleanup"},
        finished \in {"3661", "1000"}}

InitFingerprint ==
    /\ \E env \in BuildContexts, n \in 1..MaxTargets :
          /\ environ = env
          /\ PLUGIN_URLS = UrlList(n)
    /\ PLUGIN_CUSTOM_TEMPLATE = PlainTemplate
    /\ template_files = NoFiles
    /\ raw_payload = <<>>
    /\ pc = "main"
    /\ Idle

\* The create run has set SILENCE_CREATED_BY and SILENCE_COMMENT (lines
\* 331-332); a silence made of them is on the backend, expired or not, and
\* the delete run, a new process, is in find_silences for one of its
\* targets.
LaterRun ==
    /\ pc = "loop"
    /\ silence_action = "create"
    /\ \E env \in LaterEnvs(environ), id \in Ids, state \in States,
          n \in 1..MaxTargets :
          /\ environ' = env
          /\ silences_list' = <<Silence(id, state, environ["SILENCE_CREATED_BY"],
                                        environ["SILENCE_COMMENT"], OurMatchers, "")>>
          /\ target_idx' = n
    /\ pc' = "find"
    /\ UNCHANGED <<Static, exit_code, silence_ids, silence_idx,
                   request_payload, http, log, renders>>

NextFingerprint ==
    \/ Main
    \/ LaterRun
    \/ MatchSilences

SpecFingerprint == InitFingerprint /\ [][NextFingerprint]_vars

(***************************************************************************)
(* Properties of the runs.                                                 *)
(***************************************************************************)
Failed(e) == e.resp.kind = "transport" \/ e.resp.status \notin valid_response_codes

Of(method) == {k \in DOMAIN http : http[k].method = method}

Logged(level, text, pos) ==
    \E k \in DOMAIN log :
        log[k].level = level /\ log[k].msg = text /\ log[k].pos = pos

\* The run ended abnormally in the exchange of request k.
AbortedAt(k) == pc = "done" /\ exit_code = {1} /\ k = Len(http)

\* C1: in a create run a POST that fails, by a transport failure or by a
\* status other than 200, ends the run: the process has exited with code 1
\* and the failed POST is the last request it sent.
C1_CreateFailureAborts ==
    \A k \in Of("POST") : Failed(http[k]) => AbortedAt(k)

C1_Witness ==
    /\ pc = "done"
    /\ exit_code = {1}
    /\ Len(PLUGIN_URLS) = 2
    /\ Len(http) = 1
    /\ http[1].method = "POST"
    /\ http[1].resp = TransportError

\* C2: in a delete run every identifier a search returned gets its DELETE,
\* in order, and the target after it is searched, whatever the DELETE
\* requests answer: a failed DELETE never ends the run.
C2_DeleteFailureNeverAborts ==
    pc = "done" =>
        \A g \in Of("GET") :
            http[g].found # NoIds =>
                /\ \A j \in DOMAIN http[g].found :
                      /\ g + j <= Len(http)
                      /\ http[g + j].method = "DELETE"
                      /\ http[g + j].id = http[g].found[j]
                /\ http[g].pos < Len(PLUGIN_URLS) =>
                      \E h \in Of("GET") : http[h].pos = http[g].pos + 1

\* C3: in a delete run a search that fails (transport failure, status other
\* than 200, content-type absent or unexpected) never ends the run: the
\* target gets no DELETE and the run goes on.
SearchFailed(e) == Failed(e) \/ e.resp.ctype # "application/json"

C3_SearchFailureNeverTerminates ==
    \A g \in Of("GET") :
        SearchFailed(http[g]) =>
            /\ ~AbortedAt(g)
            /\ \A d \in Of("DELETE") : http[d].pos # http[g].pos

LastGet == CHOOSE g \in Of("GET") : \A h \in Of("GET") : h <= g

C5_DeleteOnlyMatched ==
    [][\A k \in (Len(http) + 1)..Len(http') :
          http'[k].method = "DELETE" =>
             /\ Of("GET") # {}
             /\ http[LastGet].pos = http'[k].pos
             /\ ~SearchFailed(http[LastGet])
             /\ \E j \in DOMAIN silences_list :
                   /\ silences_list[j].missing = ""
                   /\ silences_list[j].id = http'[k].id
                   /\ silences_list[j].state # "expired"
                   /\ silences_list[j].createdBy = silence_author
                   /\ silences_list[j].comment = silence_comment]_vars

C5_Witness ==
    /\ Len(http) >= 4
    /\ Last(http).method = "DELETE"
    /\ Last(http).pos = 2
    /\ Len(silences_list) = 2
    /\ Len(silence_ids) = 1
    /\ \E k \in Of("DELETE") : http[k].pos = 1 /\ http[k].id # Last(http).id

\* C6: on a well-formed list the search returns, in list order, the
\* identifiers of exactly the entries that are not expired and whose
\* createdBy and comment are the fingerprint; under strict matching, of
\* those among them whose matcher list equals the configured one, so that
\* no entry with another matcher set is returned.
Configured == required_matchers(environ).matchers

SetOf(seq) == {seq[k] : k \in DOMAIN seq}

IdsOf(list) == [k \in DOMAIN list |-> list[k].id]

Fingerprinted(e) ==
    /\ e.state # "expired"
    /\ e.createdBy = "drone/alertmanager"
    /\ e.comment = OurComment

RECURSIVE IsSubSeq(_, _)
IsSubSeq(a, b) ==
    IF a = <<>> THEN TRUE
    ELSE IF b = <<>> THEN FALSE
    ELSE IF Head(a) = Head(b) THEN IsSubSeq(Tail(a), Tail(b))
    ELSE IsSubSeq(a, Tail(b))

C6_SearchReturnsMatches ==
    pc = "found" =>
        LET exact(e) == Fingerprinted(e) /\ (strict_match => e.matchers = Configured)
            sameset(e) == Fingerprinted(e) /\ SetOf(e.matchers) = SetOf(Configured)
        IN  /\ silence_ids = IdsOf(SelectSeq(silences_list, exact))
            /\ ~strict_match =>
                  silence_ids = IdsOf(SelectSeq(silences_list, Fingerprinted))
            /\ strict_match =>
                  IsSubSeq(silence_ids, IdsOf(SelectSeq(silences_list, sameset)))

C6_Witness ==
    /\ pc = "found"
    /\ strict_match
    /\ Len(silences_list) = 2
    /\ Fingerprinted(silences_list[1]) /\ silences_list[1].matchers = <<"m1">>
    /\ Fingerprinted(silences_list[2]) /\ silences_list[2].matchers = <<"m1", "m2">>
    /\ silence_ids = <<silences_list[2].id>>

\* C7: in a delete run a search that returns without a match is followed
\* by no DELETE to that target and by a warning, the run goes on with the
\* next target, and when every target is searched so the exit code is 0.
NoMatch(e) ==
    /\ ~Failed(e)
    /\ e.resp.ctype # None
    /\ e.found \in {NoIds, <<>>}

C7_NoMatchNoDelete ==
    /\ \A g \in Of("GET") :
          NoMatch(http[g]) =>
             /\ \A d \in Of("DELETE") : http[d].pos # http[g].pos
             /\ Logged("WARNING", "no matching silences", http[g].pos)
             /\ ~Logged("ERROR", "no matching silences", http[g].pos)
             /\ ~AbortedAt(g)
             /\ g = Len(http) => target_idx = http[g].pos + 1
    /\ ( /\ pc = "done"
         /\ PLUGIN_URLS # <<>>
         /\ \A p \in DOMAIN PLUGIN_URLS :
               \E g \in Of("GET") : http[g].pos = p /\ NoMatch(http[g]) )
       => exit_code = {0} /\ Of("DELETE") = {}

C7_Witness ==
    /\ pc = "done"
    /\ exit_code = {0}
    /\ Len(PLUGIN_URLS) = 2
    /\ Len(http) = 2
    /\ http[1].found = <<>>
    /\ http[2].found = <<>>
    /\ Len(silences_list) = 2

\* C8: a run that ends without an error message has exit code 0 and has
\* sent, in this order and nothing else: in a create run one POST per
\* target in the order of the list; in a delete run, target after target,
\* one GET and then one DELETE per identifier the search returned, in the
\* order it returned them.
NoFailure == \A k \in DOMAIN log : log[k].level \notin {"ERROR", "TRACEBACK"}

FoundAt(p) ==
    LET g == CHOOSE g \in Of("GET") : http[g].pos = p
    IN  IF http[g].found = NoIds THEN <<>> ELSE http[g].found

RECURSIVE Expected(_)
Expected(p) ==
    IF p > Len(PLUGIN_URLS) THEN <<>>
    ELSE IF silence_action = "create"
    THEN <<<<"POST", p, None>>>> \o Expected(p + 1)
    ELSE <<<<"GET", p, None>>>>
         \o [j \in DOMAIN FoundAt(p) |-> <<"DELETE", p, FoundAt(p)[j]>>]
         \o Expected(p + 1)

C8_SequentialInOrder ==
    (pc = "done" /\ NoFailure) =>
        /\ exit_code = {0}
        /\ silence_action = "delete" =>
              \A p \in DOMAIN PLUGIN_URLS : \E g \in Of("GET") : http[g].pos = p
        /\ [k \in DOMAIN http |-> <<http[k].method, http[k].pos, http[k].id>>]
              = Expected(1)

C8_Witness ==
    /\ pc = "done"
    /\ NoFailure
    /\ Len(http) = 5
    /\ http[1].method = "GET" /\ http[1].found = <<"s2", "s1">>
    /\ http[4].method = "GET" /\ http[4].found = <<"s1">>

\* C9: no request is sent twice: no two requests of a run have the same
\* method, the same position in the target list and the same identifier.
C9_NoRetry ==
    \A a, b \in DOMAIN http :
        a < b => ~ /\ http[a].method = http[b].method
                   /\ http[a].pos = http[b].pos
                   /\ http[a].id = http[b].id

C9_Witness ==
    /\ pc = "done"
    /\ exit_code = {0}
    /\ \E k \in Of("DELETE") :
          /\ http[k].resp = TransportError
          /\ k < Len(http)
          /\ http[k + 1].method = "DELETE"
          /\ http[k + 1].pos = http[k].pos

\* C10: for every supported build event and every DRONE_DEPLOY_TO, a text
\* without the deploy-target tag is returned as it is; a text with the tag
\* is returned, every tag replaced by the deploy target, exactly when the
\* event is promote or rollback and the deploy target is not empty, and
\* otherwise the process exits with code 1.
C10_DeployTargetEventGated ==
    pc # "macro" =>
        LET deploy == environ["DRONE_DEPLOY_TO"]
            out == request_payload.text
        IN  IF \A k \in DOMAIN raw_payload : raw_payload[k] # "{{deploy_target}}"
            THEN pc = "replaced" /\ exit_code = {} /\ out = raw_payload
            ELSE IF environ["DRONE_BUILD_EVENT"] \in {"promote", "rollback"}
                    /\ deploy # None /\ deploy # ""
            THEN /\ pc = "replaced" /\ exit_code = {}
                 /\ Len(out) = Len(raw_payload)
                 /\ \A k \in DOMAIN raw_payload :
                       out[k] = IF raw_payload[k] = "{{deploy_target}}"
                                THEN deploy ELSE raw_payload[k]
            ELSE pc = "done" /\ exit_code = {1}

C10_Witness ==
    /\ pc = "replaced"
    /\ environ["DRONE_BUILD_EVENT"] = "rollback"
    /\ raw_payload = <<"{{deploy_target}}", "text", "{{deploy_target}}">>
    /\ request_payload.text = <<"prod", "text", "prod">>

\* C11: a template error (missing file, unresolved mandatory reference,
\* disallowed deploy-target macro) ends the run before any request: once a
\* render has failed the process has exited with code 1 and has sent no
\* request to any target, in create runs and strict-match delete runs.
C11_TemplateErrorBeforeNetwork ==
    /\ \A k \in DOMAIN renders :
          renders[k].kind # "ok" =>
             /\ k = Len(renders)
             /\ pc = "done"
             /\ exit_code = {1}
             /\ http = <<>>
    /\ (\E k \in DOMAIN log : log[k].msg = "template") =>
          renders # <<>> /\ Last(renders).kind # "ok" /\ http = <<>>

C11_Witness ==
    /\ pc = "done"
    /\ exit_code = {1}
    /\ silence_action = "delete"
    /\ strict_match
    /\ Len(PLUGIN_URLS) = 2
    /\ Len(renders) = 1
    /\ renders[1].kind = "raise"
    /\ Logged("TRACEBACK", "template", 1)
    /\ http = <<>>

\* C12: a run whose target URL list is empty, whose action is not create
\* or delete, whose action is create with an empty duration, that lacks a
\* required build variable or whose build event is not one of the seven
\* kinds ends at the start-up checks: it exits with code 1, has sent no
\* request and has rendered no template.
Refused ==
    \/ PLUGIN_URLS = <<>>
    \/ environ["PLUGIN_ACTION"] \notin {"create", "delete"}
    \/ environ["PLUGIN_ACTION"] = "create" /\ environ["PLUGIN_DURATION"] \in {None, ""}
    \/ \E key \in {"DRONE_REPO_OWNER", "DRONE_REPO_NAME", "DRONE_BUILD_LINK",
                    "DRONE_BUILD_NUMBER", "DRONE_BUILD_STARTED",
                    "DRONE_BUILD_FINISHED", "DRONE_BUILD_EVENT",
                    "DRONE_STAGE_NAME"} : environ[key] = None
    \/ environ["DRONE_BUILD_EVENT"] \notin
          {"push", "tag", "cron", "pull_request", "promote", "rollback", "custom"}

C12_PreflightFatal ==
    (Refused /\ pc # "main") =>
        /\ pc = "done"
        /\ exit_code = {1}
        /\ http = <<>>
        /\ renders = <<>>
        /\ target_idx = 0
        /\ Last(log).level = "ERROR"

C12_Witness ==
    /\ pc = "done"
    /\ exit_code = {1}
    /\ environ["PLUGIN_ACTION"] = "create"
    /\ environ["PLUGIN_DURATION"] = "60"
    /\ PLUGIN_URLS # <<>>
    /\ environ["DRONE_BUILD_EVENT"] = "push"
    /\ environ["DRONE_STAGE_NAME"] = None
    /\ http = <<>>
    /\ renders = <<>>

\* C13: every render of a run sees the derived duration fields: when both
\* DRONE_BUILD_STARTED and DRONE_BUILD_FINISHED are set and not empty the
\* context of the render holds DRONE_BUILD_TOTALTIME, and when both
\* DRONE_BUILD_CREATED and DRONE_BUILD_STARTED are it holds
\* DRONE_BUILD_QUEUEDTIME, for the create payload and for the matcher
\* fragment of a strict-match delete run, for the first target as for the
\* later ones.
C13_RendersSeeDerivedFields ==
    \A k \in DOMAIN renders :
        LET context == renders[k].context
            present(key) == context[key] \notin {None, ""}
            read == renders[k].source = "file" =>
                        template_files[renders[k].template].exists
        IN  read =>
            /\ (present("DRONE_BUILD_STARTED") /\ present("DRONE_BUILD_FINISHED"))
                  => context["DRONE_BUILD_TOTALTIME"] = "0:44:21"
            /\ (present("DRONE_BUILD_CREATED") /\ present("DRONE_BUILD_STARTED"))
                  => context["DRONE_BUILD_QUEUEDTIME"] = "0:00:10"

\* C14: in a create run with an inline template every render is a render
\* of the inline template, whether a template set is named or not: the
\* render ends as the inline template alone decides, the body of each POST
\* is the text of the inline template, and the file of the template set,
\* missing or broken, is never read; a file is rendered only in runs
\* without an inline template.
C14_InlineTakesPrecedence ==
    /\ \A k \in DOMAIN renders :
          (renders[k].source = "file" /\ renders[k].template[2] = "create")
              => PLUGIN_CUSTOM_TEMPLATE = <<>>
    /\ (silence_action = "create" /\ PLUGIN_CUSTOM_TEMPLATE # <<>>) =>
          \A k \in DOMAIN renders :
             LET inline == render_custom_template(PLUGIN_CUSTOM_TEMPLATE,
                                                  renders[k].context)
             IN  /\ renders[k].source = "inline"
                 /\ renders[k].kind = "ok" <=> inline.kind = "ok"
                 /\ (k = Len(renders) /\ inline.kind = "ok") =>
                       /\ ~Logged("ERROR", "template", renders[k].pos)
                       /\ request_payload = [rendered |-> TRUE, text |-> inline.text]
                       /\ \E j \in Of("POST") : http[j].pos = renders[k].pos

C14_Witness ==
    /\ pc = "done"
    /\ exit_code = {0}
    /\ silence_action = "create"
    /\ environ["PLUGIN_TEMPLATE"] = "custom"
    /\ PLUGIN_CUSTOM_TEMPLATE = PlainTemplate
    /\ template_files[<<"custom", "create">>] = File(BrokenTemplate)
    /\ Len(http) = 2
    /\ Len(renders) = 2
    /\ request_payload.text = <<"text">>

\* C15: a search whose processing of the silence list fails, at an entry
\* that lacks a field or at a body that does not decode, logs the failure
\* and returns no identifier, those of the entries that matched before the
\* failing one included, and its target gets no DELETE.
C15_FailedSearchReturnsNothing ==
    \A g \in Of("GET") :
        ( \/ Logged("ERROR", "searching failed", http[g].pos)
          \/ Logged("ERROR", "decode", http[g].pos) )
        => /\ http[g].found \in {NoIds, <<>>}
           /\ \A d \in Of("DELETE") : http[d].pos # http[g].pos

\* C16: in a create run the body of every POST is the output of a render:
\* each POST follows a render for its target that ended well, and a run
\* with neither PLUGIN_TEMPLATE nor PLUGIN_CUSTOM_TEMPLATE set, which the
\* start-up warning says renders default, renders default/create for it.
C16_DefaultTemplateRendered ==
    silence_action = "create" =>
        /\ Of("POST") # {} => request_payload.rendered
        /\ \A k \in Of("POST") :
              /\ \E j \in DOMAIN renders :
                    renders[j].pos = http[k].pos /\ renders[j].kind = "ok"
              /\ Logged("WARNING", "rendering default", 0) =>
                    \E j \in DOMAIN renders :
                       /\ renders[j].pos = http[k].pos
                       /\ renders[j].template = <<"default", "create">>

\* C17: createdBy and comment are a function of the build number, the
\* repository owner and name and the build link alone: a delete run that
\* agrees with a create run on these four derives the createdBy and the
\* comment the create run wrote, whatever its action, build event, stage,
\* timestamps and target, and its non-strict search returns the silence
\* that carries them when it is not expired.
C17_FingerprintDeterministic ==
    pc \in {"find", "found"} =>
        LET silence == silences_list[1] IN
        /\ silence.createdBy = silence_author
        /\ silence.comment = silence_comment
        /\ pc = "found" =>
              silence_ids = IF silence.state = "expired" THEN <<>>
                            ELSE <<silence.id>>

C17_Witness ==
    /\ pc = "found"
    /\ silence_action = "delete"
    /\ ~strict_match
    /\ environ["DRONE_BUILD_NUMBER"] = "8"
    /\ environ["DRONE_REPO_OWNER"] = "acme"
    /\ environ["DRONE_STAGE_NAME"] = "cleanup"
    /\ environ["DRONE_BUILD_EVENT"] = "tag"
    /\ target_idx = 2
    /\ silences_list[1].state = "active"
    /\ silence_ids = <<silences_list[1].id>>

\* C18: a create run that ends with exit code 0 has sent every target of
\* the list exactly one POST, and each of them was answered with status
\* 200: none was skipped, none failed in transport or got another status.
C18_ExitZeroAllCreated ==
    (pc = "done" /\ exit_code = {0} /\ silence_action = "create") =>
        /\ Len(http) = Len(PLUGIN_URLS)
        /\ \A p \in DOMAIN PLUGIN_URLS :
              /\ Cardinality({k \in Of("POST") : http[k].pos = p}) = 1
              /\ \A k \in Of("POST") :
                    http[k].pos = p =>
                       /\ http[k].resp.kind = "http"
                       /\ http[k].resp.status = 200

C18_Witness ==
    /\ pc = "done"
    /\ exit_code = {0}
    /\ silence_action = "create"
    /\ Len(PLUGIN_URLS) = 2
    /\ Len(http) = 2
    /\ http[1].resp = Status(200, "application/json", "silenceID")
    /\ http[2].resp = Status(200, "application/json", "silenceID")

\* C19: in a create run a POST answered 200 application/json with a body
\* that does not decode or holds no silenceID ends the run by an uncaught
\* exception: exit code 1 at that target, and no later target gets a POST.
C19_BadBodyAborts ==
    \A k \in Of("POST") :
        ( /\ http[k].resp.kind = "http"
          /\ http[k].resp.status = 200
          /\ http[k].resp.ctype = "application/json"
          /\ http[k].resp.body # "silenceID" )
        => /\ AbortedAt(k)
           /\ target_idx = http[k].pos
           /\ \E e \in {"TypeError", "KeyError"} :
                 Last(log) = [level |-> "TRACEBACK", msg |-> e, pos |-> http[k].pos]
           /\ \A j \in Of("POST") : http[j].pos <= http[k].pos

C19_Witness ==
    /\ pc = "done"
    /\ exit_code = {1}
    /\ Len(PLUGIN_URLS) = 2
    /\ Len(http) = 1
    /\ http[1].method = "POST"
    /\ http[1].resp = Status(200, "application/json", "undecodable")
    /\ Logged("ERROR", "decode", 1)

====
